---- MODULE Spec2Model ----
(***************************************************************************)
(* A model of src/ECS.ts: the QueryBuilder / Query classes and the Engine  *)
(* (entity table, component mutation, queries, system list and tick loop). *)
(*                                                                         *)
(* JavaScript values are encoded with one record shape per kind so that    *)
(* every variable keeps a single type:                                      *)
(*   - a Component object is its identity, a number in 1..NumComponents;    *)
(*   - an Entity (a uuid string) is a number in 1..MaxEntities;             *)
(*   - a tag string is a sequence of characters;                            *)
(*   - a JS value is [type, n, items], see Undefined/Num/Comp/Arr.          *)
(***************************************************************************)
EXTENDS Integers, Sequences, FiniteSets, TLC

\* ---------------------------------------------------------------- bounds
MaxEntities == 2
NumComponents == 2
MaxComponents == 2
MaxTags == 1
MaxSystems == 3
MaxDepth == 2
NumSystems == 2

Entities == 1..MaxEntities
Components == 1..NumComponents
Systems == 1..NumSystems

\* The tag of each Component object: components 1 and 2 are two distinct
\* objects with the same tag "He", any further component has tag "Ve".
tag(component) ==
  IF component <= 2 THEN <<"H", "e">> ELSE <<"V", "e">>

Operations == {"is", "is not", "starts with"}
Comparisons == {<<"H">>, <<"H", "e">>}
TagComparison == [operation : Operations, comparison : Comparisons]

\* ------------------------------------------------------------- JS values
Undefined == [type |-> "undefined", n |-> 0, items |-> <<>>]
Num(k) == [type |-> "number", n |-> k, items |-> <<>>]
Comp(c) == [type |-> "component", n |-> c, items |-> <<>>]
Arr(s) == [type |-> "array", n |-> 0, items |-> s]
Bool(b) == [type |-> "boolean", n |-> IF b THEN 1 ELSE 0, items |-> <<>>]
This == [type |-> "QueryBuilder", n |-> 0, items |-> <<>>]
QueryObject(q) == [type |-> q.queryType, n |-> 0, items |-> <<>>]

\* if (v): undefined and 0 are falsy, every object (an empty array too) is truthy
Truthy(v) ==
  \/ v.type \in {"component", "array", "QueryBuilder", "single", "many"}
  \/ v.type = "boolean" /\ v.n = 1
  \/ v.type = "number" /\ v.n # 0

\* an array-valued field that may still be undefined
UndefinedArray == [defined |-> FALSE, items |-> <<>>]
DefinedArray(s) == [defined |-> TRUE, items |-> s]

\* outcomes of a call
Returned == "return"
TypeError == "TypeError"
EntityDoesNotExist == "Error: Entity does not exist."
SystemError == "error thrown by a System"
Pending == "pending"

VARIABLES
  _componentTable,  \* Engine._componentTable: Map in insertion order, <<[entity, components]>>
  uuids,            \* number of uuids handed out by uuid.v4()
  _systems,         \* Engine._systems
  stack,            \* engine calls in progress, each inside a System callback
  builder,          \* the QueryBuilder object the caller holds
  query,            \* the value the last build() returned
  ret               \* the last call made: operation, arguments, outcome, value

vars == <<_componentTable, uuids, _systems, stack, builder, query, ret>>

\* the record of one call
Call(op, entity, component, outcome, value, entries) ==
  [op |-> op, entity |-> entity, component |-> component, components |-> <<>>,
   system |-> 0, initial |-> <<>>, ticked |-> <<>>,
   outcome |-> outcome, value |-> value, entries |-> entries]

\* the record of a call that takes an array of components
ArrayCall(op, components, outcome, value) ==
  [Call(op, 0, 0, outcome, value, <<>>) EXCEPT !.components = components]

\* the record of addSystem(system) or tick(): initial is _systems as the call
\* found it, ticked the systems whose tick the call has invoked, in order
SystemCall(op, system, initial, ticked, outcome) ==
  [Call(op, 0, 0, outcome, Undefined, <<>>) EXCEPT
     !.system = system, !.initial = initial, !.ticked = ticked]

\* ----------------------------------------------------- Map and Array helpers
Min(a, b) == IF a < b THEN a ELSE b
Max(a, b) == IF a > b THEN a ELSE b

MapHas(m, k) == \E i \in 1..Len(m) : m[i].entity = k
MapIndex(m, k) == CHOOSE i \in 1..Len(m) : m[i].entity = k
MapGet(m, k) == m[MapIndex(m, k)].components

\* Map.prototype.set: replaces the value of a present key in place, appends a new key
MapSet(m, k, v) ==
  IF MapHas(m, k)
    THEN [m EXCEPT ![MapIndex(m, k)].components = v]
    ELSE Append(m, [entity |-> k, components |-> v])

RECURSIVE SeqWithout(_, _)
SeqWithout(m, k) ==
  IF m = <<>> THEN <<>>
  ELSE IF Head(m).entity = k THEN SeqWithout(Tail(m), k)
  ELSE <<Head(m)>> \o SeqWithout(Tail(m), k)

\* a delete that empties the whole map (Map.prototype.clear)
MapClear(m, k) == <<>>

\* Map.prototype.delete: removes the key when present, no error when absent
MapDelete(m, k) == SeqWithout(m, k)

\* Array.prototype.indexOf: 0-based index of the first element identical to x, or -1
indexOf(s, x) ==
  IF \E i \in 1..Len(s) : s[i] = x
    THEN (CHOOSE i \in 1..Len(s) : s[i] = x /\ \A j \in 1..(i - 1) : s[j] # x) - 1
    ELSE -1

\* the 0-based start position Array.prototype.splice works from
SpliceStart(s, start) ==
  IF start < 0 THEN Max(Len(s) + start, 0) ELSE Min(start, Len(s))

\* Array.prototype.splice(start): deletes every element from start to the end
splice1(s, start) == SubSeq(s, 1, SpliceStart(s, start))

\* Array.prototype.splice(start, deleteCount): deletes deleteCount elements at start
splice2(s, start, deleteCount) ==
  LET from == SpliceStart(s, start)
      count == Max(0, Min(deleteCount, Len(s) - from))
  IN SubSeq(s, 1, from) \o SubSeq(s, from + count + 1, Len(s))

\* ------------------------------------------------------------ Engine: table
\* the number of components attached over the whole table
RECURSIVE Attached(_)
Attached(m) == IF m = <<>> THEN 0 ELSE Len(Head(m).components) + Attached(Tail(m))

\* a _getEntity that hands out an empty array for a missing entity instead
\* of throwing
_getEntityOrEmpty(entity) ==
  IF MapHas(_componentTable, entity)
    THEN [thrown |-> FALSE, rv |-> MapGet(_componentTable, entity)]
    ELSE [thrown |-> FALSE, rv |-> <<>>]

\* Engine._getEntity: the entity's component array, or a thrown Error
_getEntity(entity) ==
  IF MapHas(_componentTable, entity)
    THEN [thrown |-> FALSE, rv |-> MapGet(_componentTable, entity)]
    ELSE [thrown |-> TRUE, rv |-> <<>>]

\* Engine.createEntity: uuid.v4() never repeats an id it has handed out
createEntity ==
  /\ uuids < MaxEntities
  /\ LET entity == uuids + 1 IN
       /\ uuids' = uuids + 1
       /\ _componentTable' = MapSet(_componentTable, entity, <<>>)
       /\ ret' = Call("createEntity", entity, 0, Returned, Undefined, <<>>)
  /\ UNCHANGED <<_systems, stack, builder, query>>

\* Engine.removeEntity
removeEntity(entity) ==
  /\ _componentTable' = MapDelete(_componentTable, entity)
  /\ ret' = Call("removeEntity", entity, 0, Returned, Undefined, <<>>)
  /\ UNCHANGED <<uuids, _systems, stack, builder, query>>

\* an addComponent that puts the component in front (unshift for push)
addComponentUnshift(entity, component) ==
  LET e == _getEntity(entity) IN
  /\ IF e.thrown
       THEN /\ ret' = Call("addComponent", entity, component, EntityDoesNotExist, Undefined, <<>>)
            /\ UNCHANGED _componentTable
       ELSE /\ Attached(_componentTable) < MaxComponents
            /\ _componentTable' = MapSet(_componentTable, entity, <<component>> \o e.rv)
            /\ ret' = Call("addComponent", entity, component, Returned, Num(Len(e.rv) + 1), <<>>)
  /\ UNCHANGED <<uuids, _systems, stack, builder, query>>

\* an addComponent that enters a missing entity into the table before it throws
addComponentCreating(entity, component) ==
  LET e == _getEntity(entity) IN
  /\ IF e.thrown
       THEN /\ ret' = Call("addComponent", entity, component, EntityDoesNotExist, Undefined, <<>>)
            /\ _componentTable' = MapSet(_componentTable, entity, <<>>)
       ELSE /\ Attached(_componentTable) < MaxComponents
            /\ _componentTable' = MapSet(_componentTable, entity, Append(e.rv, component))
            /\ ret' = Call("addComponent", entity, component, Returned, Num(Len(e.rv) + 1), <<>>)
  /\ UNCHANGED <<uuids, _systems, stack, builder, query>>

\* Engine.addComponent
addComponent(entity, component) ==
  LET e == _getEntity(entity) IN
  /\ IF e.thrown
       THEN /\ ret' = Call("addComponent", entity, component, EntityDoesNotExist, Undefined, <<>>)
            /\ UNCHANGED _componentTable
       ELSE /\ Attached(_componentTable) < MaxComponents
            /\ _componentTable' = MapSet(_componentTable, entity, Append(e.rv, component))
            /\ ret' = Call("addComponent", entity, component, Returned, Num(Len(e.rv) + 1), <<>>)
  /\ UNCHANGED <<uuids, _systems, stack, builder, query>>

\* Engine.removeComponent
removeComponent(entity, component) ==
  LET e == _getEntity(entity) IN
  /\ IF e.thrown
       THEN /\ ret' = Call("removeComponent", entity, component, EntityDoesNotExist, Undefined, <<>>)
            /\ UNCHANGED _componentTable
       ELSE LET componentIndex == indexOf(e.rv, component) IN
            /\ _componentTable' = MapSet(_componentTable, entity, splice1(e.rv, componentIndex))
            /\ ret' = Call("removeComponent", entity, component, Returned, Undefined, <<>>)
  /\ UNCHANGED <<uuids, _systems, stack, builder, query>>

\* Engine.removeAllComponents
removeAllComponents(entity) ==
  LET e == _getEntity(entity) IN
  /\ IF e.thrown
       THEN /\ ret' = Call("removeAllComponents", entity, 0, EntityDoesNotExist, Undefined, <<>>)
            /\ UNCHANGED _componentTable
       ELSE /\ _componentTable' = MapSet(_componentTable, entity, splice2(e.rv, 0, Len(e.rv)))
            /\ ret' = Call("removeAllComponents", entity, 0, Returned, Undefined, <<>>)
  /\ UNCHANGED <<uuids, _systems, stack, builder, query>>

\* ------------------------------------------------------------ QueryBuilder
\* new QueryBuilder(): neither field has an initializer
NewQueryBuilder == [queryType |-> "undefined", queryTags |-> UndefinedArray]

\* a caller's new QueryBuilder()
newQueryBuilder ==
  /\ builder' = NewQueryBuilder
  /\ ret' = Call("new QueryBuilder", 0, 0, Returned, This, <<>>)
  /\ UNCHANGED <<_componentTable, uuids, _systems, stack, query>>

\* QueryBuilder.One
One ==
  /\ builder' = [NewQueryBuilder EXCEPT !.queryType = "single"]
  /\ ret' = Call("One", 0, 0, Returned, This, <<>>)
  /\ UNCHANGED <<_componentTable, uuids, _systems, stack, query>>

\* QueryBuilder.Many
Many ==
  /\ builder' = [NewQueryBuilder EXCEPT !.queryType = "many"]
  /\ ret' = Call("Many", 0, 0, Returned, This, <<>>)
  /\ UNCHANGED <<_componentTable, uuids, _systems, stack, query>>

\* queryTags is a public field: a caller's assignment `builder.queryTags = []`
\* is the only way it ever holds an array
assignQueryTags ==
  /\ builder' = [builder EXCEPT !.queryTags = DefinedArray(<<>>)]
  /\ ret' = Call("queryTags =", 0, 0, Returned, Arr(<<>>), <<>>)
  /\ UNCHANGED <<_componentTable, uuids, _systems, stack, query>>

\* QueryBuilder.withTag: this.queryTags.push(...) throws on an undefined queryTags
withTag(operation, comparison) ==
  /\ IF ~builder.queryTags.defined
       THEN /\ ret' = Call("withTag", 0, 0, TypeError, Undefined, <<>>)
            /\ UNCHANGED builder
       ELSE /\ Len(builder.queryTags.items) < MaxTags
            /\ builder' = [builder EXCEPT !.queryTags.items =
                 Append(@, [operation |-> operation, comparison |-> comparison])]
            /\ ret' = Call("withTag", 0, 0, Returned, This, <<>>)
  /\ UNCHANGED <<_componentTable, uuids, _systems, stack, query>>

\* ------------------------------------------------------------------- Query
\* the value of build() when neither branch returns
NoQuery == [queryType |-> "undefined", _queryTags |-> UndefinedArray, queryTags |-> <<>>]

\* BaseQuery.constructor: `this._queryTags = this._queryTags` stores the
\* field's own (undefined) value.  The queryTags argument is not stored by the
\* code; the record keeps it beside the object to tell what it was built from
BaseQuery(queryTags) == [_queryTags |-> UndefinedArray, queryTags |-> queryTags]

\* SingleQuery.constructor
SingleQuery(queryTags) ==
  [queryType |-> "single", _queryTags |-> BaseQuery(queryTags)._queryTags,
   queryTags |-> BaseQuery(queryTags).queryTags]

\* ManyQuery.constructor
ManyQuery(queryTags) ==
  [queryType |-> "many", _queryTags |-> BaseQuery(queryTags)._queryTags,
   queryTags |-> BaseQuery(queryTags).queryTags]

\* QueryBuilder.build: this.queryTags.slice() throws on an undefined queryTags
build ==
  /\ IF builder.queryType \in {"single", "many"}
       THEN IF ~builder.queryTags.defined
              THEN /\ ret' = Call("build", 0, 0, TypeError, Undefined, <<>>)
                   /\ UNCHANGED query
              ELSE LET q == IF builder.queryType = "single"
                              THEN SingleQuery(builder.queryTags.items)
                              ELSE ManyQuery(builder.queryTags.items)
                   IN /\ query' = q
                      /\ ret' = Call("build", 0, 0, Returned, QueryObject(q), <<>>)
       ELSE /\ query' = NoQuery
            /\ ret' = Call("build", 0, 0, Returned, Undefined, <<>>)
  /\ UNCHANGED <<_componentTable, uuids, _systems, stack, builder>>

\* String.prototype.startsWith
startsWith(s, prefix) ==
  /\ Len(prefix) <= Len(s)
  /\ SubSeq(s, 1, Len(prefix)) = prefix

\* the callback of BaseQuery.matches: one Tag Comparison against a component
Satisfies(v, component) ==
  CASE v.operation = "is" -> tag(component) = v.comparison
    [] v.operation = "is not" -> tag(component) # v.comparison
    [] v.operation = "starts with" -> startsWith(tag(component), v.comparison)

\* BaseQuery.matches: "true", "false", or "TypeError" when _queryTags.some
\* is read from an undefined _queryTags
matches(q, component) ==
  IF ~q._queryTags.defined
    THEN "TypeError"
    ELSE IF \E i \in 1..Len(q._queryTags.items) : Satisfies(q._queryTags.items[i], component)
      THEN "true"
      ELSE "false"

\* Array.prototype.find with this.matches: the first element the callback
\* accepts, undefined when there is none; a throw of the callback propagates
RECURSIVE find(_, _)
find(q, s) ==
  IF s = <<>> THEN [outcome |-> Returned, value |-> Undefined]
  ELSE LET m == matches(q, Head(s)) IN
    IF m = "TypeError" THEN [outcome |-> TypeError, value |-> Undefined]
    ELSE IF m = "true" THEN [outcome |-> Returned, value |-> Comp(Head(s))]
    ELSE find(q, Tail(s))

\* Array.prototype.filter with this.matches
RECURSIVE filter(_, _)
filter(q, s) ==
  IF s = <<>> THEN [outcome |-> Returned, value |-> Arr(<<>>)]
  ELSE LET m == matches(q, Head(s)) IN
    IF m = "TypeError" THEN [outcome |-> TypeError, value |-> Undefined]
    ELSE LET rest == filter(q, Tail(s)) IN
      IF rest.outcome = TypeError THEN rest
      ELSE IF m = "true"
        THEN [outcome |-> Returned, value |-> Arr(<<Head(s)>> \o rest.value.items)]
        ELSE rest

\* SingleQuery.run / ManyQuery.run
run(q, components) ==
  IF q.queryType = "single" THEN find(q, components) ELSE filter(q, components)

ComponentArrays == UNION {[1..n -> Components] : n \in 0..MaxComponents}

\* a caller's q.matches(component) on the built query
callMatches(component) ==
  /\ query.queryType # "undefined"
  /\ LET m == matches(query, component) IN
       ret' = Call("matches", 0, component,
                   IF m = "TypeError" THEN TypeError ELSE Returned,
                   IF m = "TypeError" THEN Undefined ELSE Bool(m = "true"), <<>>)
  /\ UNCHANGED <<_componentTable, uuids, _systems, stack, builder, query>>

\* a caller's q.run(components) on the built query
callRun(components) ==
  /\ query.queryType # "undefined"
  /\ LET r == run(query, components) IN
       ret' = ArrayCall("run", components, r.outcome, r.value)
  /\ UNCHANGED <<_componentTable, uuids, _systems, stack, builder, query>>

\* --------------------------------------------------------- Engine: queries
\* Engine.queryEntity
queryEntity(entity) ==
  /\ query.queryType # "undefined"
  /\ LET e == _getEntity(entity) IN
       IF e.thrown
         THEN ret' = Call("queryEntity", entity, 0, EntityDoesNotExist, Undefined, <<>>)
         ELSE LET r == run(query, e.rv) IN
              ret' = Call("queryEntity", entity, 0, r.outcome, r.value, <<>>)
  /\ UNCHANGED <<_componentTable, uuids, _systems, stack, builder, query>>

\* the loop of Engine.queryAll over the entries of _componentTable from
\* position i on, rv being the object built so far
RECURSIVE queryAllFrom(_, _, _)
queryAllFrom(q, i, rv) ==
  IF i > Len(_componentTable) THEN [outcome |-> Returned, rv |-> rv]
  ELSE LET entity == _componentTable[i].entity
           matchedComponents == run(q, _componentTable[i].components)
       IN IF matchedComponents.outcome = TypeError
            THEN [outcome |-> TypeError, rv |-> <<>>]
            ELSE IF Truthy(matchedComponents.value)
              THEN queryAllFrom(q, i + 1,
                     Append(rv, [key |-> entity, value |-> matchedComponents.value]))
              ELSE queryAllFrom(q, i + 1, rv)

\* Engine.queryAll
queryAll ==
  /\ query.queryType # "undefined"
  /\ LET r == queryAllFrom(query, 1, <<>>) IN
       ret' = Call("queryAll", 0, 0, r.outcome, Undefined, r.rv)
  /\ UNCHANGED <<_componentTable, uuids, _systems, stack, builder, query>>

\* ---------------------------------------------------------- Engine: systems
\* One frame of `stack` is an addSystem or tick call that is inside a System
\* callback (onInitialize or tick): `system` is the system whose callback
\* runs, `index` the array iterator's position in _systems, `initial` and
\* `ticked` as in SystemCall.  The callback is the caller of every call made
\* while its frame is on top; with an empty stack the caller is the program.
Frame(call, system, index, initial, ticked) ==
  [call |-> call, system |-> system, index |-> index,
   initial |-> initial, ticked |-> ticked]

Top == stack[Len(stack)]
Pop == SubSeq(stack, 1, Len(stack) - 1)

\* an iterator that walks the array from its last element to its first
iteratorNextReversed(array, index) ==
  IF index < Len(array)
    THEN [done |-> FALSE, value |-> array[Len(array) - index], index |-> index + 1]
    ELSE [done |-> TRUE, value |-> 0, index |-> index]

\* the array iterator of `for (const system of this._systems)`: it reads
\* the array's current length at every step
iteratorNext(array, index) ==
  IF index < Len(array)
    THEN [done |-> FALSE, value |-> array[index + 1], index |-> index + 1]
    ELSE [done |-> TRUE, value |-> 0, index |-> index]

\* Engine.addSystem up to the call of system.onInitialize(this)
addSystem(system) ==
  /\ Len(_systems) < MaxSystems
  /\ Len(stack) < MaxDepth
  /\ _systems' = Append(_systems, system)
  /\ stack' = Append(stack, Frame("addSystem", system, 0, _systems, <<>>))
  /\ ret' = SystemCall("addSystem", system, _systems, <<>>, Pending)
  /\ UNCHANGED <<_componentTable, uuids, builder, query>>

\* system.onInitialize returns, and addSystem with it
onInitializeReturns ==
  /\ stack # <<>>
  /\ Top.call = "addSystem"
  /\ stack' = Pop
  /\ ret' = SystemCall("addSystem", Top.system, Top.initial, <<>>, Returned)
  /\ UNCHANGED <<_componentTable, uuids, _systems, builder, query>>

\* system.onInitialize throws: addSystem has no handler, its caller gets the error
onInitializeThrows ==
  /\ stack # <<>>
  /\ Top.call = "addSystem"
  /\ stack' = Pop
  /\ ret' = SystemCall("addSystem", Top.system, Top.initial, <<>>, SystemError)
  /\ UNCHANGED <<_componentTable, uuids, _systems, builder, query>>

\* Engine.tick from the iterator position `index` on: returns when the
\* iterator is done, else is inside the next system's tick
tickFrom(index, initial, ticked, rest) ==
  LET it == iteratorNext(_systems, index) IN
  IF it.done
    THEN /\ stack' = rest
         /\ ret' = SystemCall("tick", 0, initial, ticked, Returned)
    ELSE /\ stack' = Append(rest,
              Frame("tick", it.value, it.index, initial, Append(ticked, it.value)))
         /\ ret' = SystemCall("tick", it.value, initial, Append(ticked, it.value), Pending)

\* Engine.tick up to the first call of system.tick(this)
tick ==
  /\ Len(stack) < MaxDepth
  /\ tickFrom(0, _systems, <<>>, stack)
  /\ UNCHANGED <<_componentTable, uuids, _systems, builder, query>>

\* system.tick returns: the loop of Engine.tick goes on
systemTickReturns ==
  /\ stack # <<>>
  /\ Top.call = "tick"
  /\ tickFrom(Top.index, Top.initial, Top.ticked, Pop)
  /\ UNCHANGED <<_componentTable, uuids, _systems, builder, query>>

\* a tick that keeps a system's error, ticks the systems left and throws at the end
systemTickThrowsAtEnd ==
  /\ stack # <<>>
  /\ Top.call = "tick"
  /\ stack' = Pop
  /\ ret' = SystemCall("tick", Top.system, Top.initial,
                       Top.ticked \o SubSeq(_systems, Top.index + 1, Len(_systems)),
                       SystemError)
  /\ UNCHANGED <<_componentTable, uuids, _systems, builder, query>>

\* system.tick throws: Engine.tick has no handler, its caller gets the error
systemTickThrows ==
  /\ stack # <<>>
  /\ Top.call = "tick"
  /\ stack' = Pop
  /\ ret' = SystemCall("tick", Top.system, Top.initial, Top.ticked, SystemError)
  /\ UNCHANGED <<_componentTable, uuids, _systems, builder, query>>

\* ---------------------------------------------------------- specifications
Init ==
  /\ _componentTable = <<>>
  /\ uuids = 0
  /\ _systems = <<>>
  /\ stack = <<>>
  /\ builder = NewQueryBuilder
  /\ query = NoQuery
  /\ ret = Call("new Engine", 0, 0, Returned, Undefined, <<>>)

TableNext ==
  \/ createEntity
  \/ \E entity \in Entities : removeEntity(entity)
  \/ \E entity \in Entities, component \in Components : addComponent(entity, component)
  \/ \E entity \in Entities, component \in Components : removeComponent(entity, component)
  \/ \E entity \in Entities : removeAllComponents(entity)

BuildNext ==
  \/ One
  \/ Many
  \/ assignQueryTags
  \/ build

BuilderNext ==
  \/ newQueryBuilder
  \/ \E operation \in Operations, comparison \in Comparisons : withTag(operation, comparison)

QueryNext ==
  \/ \E component \in Components : callMatches(component)
  \/ \E components \in ComponentArrays : callRun(components)

EngineQueryNext ==
  \/ \E entity \in Entities : queryEntity(entity)
  \/ queryAll

SystemsNext ==
  \/ \E system \in Systems : addSystem(system)
  \/ onInitializeReturns
  \/ onInitializeThrows
  \/ tick
  \/ systemTickReturns
  \/ systemTickThrows

Next ==
  \/ TableNext
  \/ BuildNext
  \/ BuilderNext
  \/ QueryNext
  \/ EngineQueryNext
  \/ SystemsNext

Spec == Init /\ [][Next]_vars

\* the QueryBuilder and the Query it builds
SpecQuery == Init /\ [][BuildNext \/ BuilderNext \/ QueryNext]_vars

\* the entity table and the queries run on it; of the builder, the calls that
\* lead to a Query (the comparisons of withTag never reach one, see BaseQuery)
SpecEngine == Init /\ [][TableNext \/ BuildNext \/ EngineQueryNext]_vars

\* the system list and the tick loop
SpecSystems == Init /\ [][SystemsNext]_vars

\* ------------------------------------------------------------------ claims
\* what the claims mean by a Tag Comparison of a query being satisfied
SomeSatisfied(queryTags, component) ==
  \E i \in 1..Len(queryTags) : Satisfies(queryTags[i], component)

RECURSIVE FirstSatisfying(_, _)
FirstSatisfying(queryTags, s) ==
  IF s = <<>> THEN Undefined
  ELSE IF SomeSatisfied(queryTags, Head(s)) THEN Comp(Head(s))
  ELSE FirstSatisfying(queryTags, Tail(s))

\* s without its first occurrence of x
WithoutFirst(s, x) ==
  LET i == indexOf(s, x) + 1 IN SubSeq(s, 1, i - 1) \o SubSeq(s, i + 1, Len(s))

Range(s) == {s[i] : i \in 1..Len(s)}
IsKey(entries, entity) == \E i \in 1..Len(entries) : entries[i].key = entity
NonEmptyResult(v) == v.type = "component" \/ (v.type = "array" /\ v.items # <<>>)

\* an entity that createEntity returned and removeEntity has removed
Removed(entity) == entity <= uuids /\ ~MapHas(_componentTable, entity)

\* C1: q.matches(c) of a built query returns, and it returns true exactly when
\* one of the Tag Comparisons the query was built from is satisfied by c.tag.
C1_MatchesIsDisjunction ==
  ret.op = "matches" =>
    /\ ret.outcome = Returned
    /\ ret.value = Bool(SomeSatisfied(query.queryTags, ret.component))

\* C2: removeComponent(e, c) with c in e's sequence leaves the sequence without
\* its first occurrence of c, all other elements kept in order.
C2_RemovesFirstOccurrenceOnly ==
  [][(/\ ret'.op = "removeComponent"
      /\ MapHas(_componentTable, ret'.entity)
      /\ indexOf(MapGet(_componentTable, ret'.entity), ret'.component) >= 0)
     => /\ MapHas(_componentTable', ret'.entity)
        /\ MapGet(_componentTable', ret'.entity) =
             WithoutFirst(MapGet(_componentTable, ret'.entity), ret'.component)]_vars

\* C3: removeComponent(e, c) with e live and c not in e's sequence fails with
\* ComponentNotFound and leaves the table as it was.
C3_AbsentComponentFails ==
  [][(/\ ret'.op = "removeComponent"
      /\ MapHas(_componentTable, ret'.entity)
      /\ indexOf(MapGet(_componentTable, ret'.entity), ret'.component) = -1)
     => /\ ret'.outcome = "ComponentNotFound"
        /\ _componentTable' = _componentTable]_vars

\* C4: an entity is a key of the result of queryAll(q) exactly when q.run on
\* its sequence is a non-empty array (many) or a component (single).
C4_QueryAllOmitsEmpty ==
  (ret.op = "queryAll" /\ ret.outcome = Returned) =>
    \A entity \in Entities :
      IsKey(ret.entries, entity) <=>
        /\ MapHas(_componentTable, entity)
        /\ NonEmptyResult(run(query, MapGet(_componentTable, entity)).value)

\* C5: the systems one tick() call ticks are, in order, systems of the list
\* as it was when the call started; a system appended meanwhile is not ticked.
C5_TickBoundFixedAtStart ==
  ret.op = "tick" =>
    /\ Len(ret.ticked) <= Len(ret.initial)
    /\ ret.ticked = SubSeq(ret.initial, 1, Len(ret.ticked))

\* C6: after addSystem(system) failed in onInitialize, the system (not
\* registered before the call) is not in the system list.
C6_FailedSystemNotRegistered ==
  (/\ ret.op = "addSystem"
   /\ ret.outcome = SystemError
   /\ ret.system \notin Range(ret.initial))
  => ret.system \notin Range(_systems)

\* C7: removeEntity(e) of an entity that is not in the table fails with the
\* entity-not-found error.
C7_RemoveAbsentEntityFails ==
  [][(ret'.op = "removeEntity" /\ ~MapHas(_componentTable, ret'.entity))
     => ret'.outcome = EntityDoesNotExist]_vars

\* C8: once removeEntity has removed e, every addComponent, removeComponent,
\* removeAllComponents and queryEntity on e fails with the entity-not-found
\* error and e is no key of a queryAll result.
C8_RemovedEntityStaysGone ==
  \A entity \in Entities :
    Removed(entity) =>
      /\ (/\ ret.entity = entity
          /\ ret.op \in {"addComponent", "removeComponent",
                         "removeAllComponents", "queryEntity"})
         => ret.outcome = EntityDoesNotExist
      /\ ret.op = "queryAll" => ~IsKey(ret.entries, entity)

C8_Witness ==
  /\ ret.op \in {"addComponent", "queryEntity"}
  /\ Removed(ret.entity)
  /\ ret.outcome = EntityDoesNotExist
  /\ _componentTable # <<>>

\* C9: a tick() call that returns, no system having thrown and the system
\* list being the one it started with, has ticked every registered system
\* once, in registration order.
C9_TickInRegistrationOrder ==
  (ret.op = "tick" /\ ret.outcome = Returned /\ ret.initial = _systems)
  => ret.ticked = _systems

C9_Witness ==
  /\ ret.op = "tick"
  /\ ret.outcome = Returned
  /\ ret.initial = _systems
  /\ ret.ticked = <<2, 1, 2>>

\* C10: run(S) of a built Single query returns the first element of S that
\* satisfies one of the query's Tag Comparisons, undefined when none does,
\* and does not throw.
C10_SingleRunFindsFirst ==
  (ret.op = "run" /\ query.queryType = "single") =>
    /\ ret.outcome = Returned
    /\ ret.value = FirstSatisfying(query.queryTags, ret.components)

RECURSIVE AllSatisfying(_, _)
AllSatisfying(queryTags, s) ==
  IF s = <<>> THEN <<>>
  ELSE IF SomeSatisfied(queryTags, Head(s))
    THEN <<Head(s)>> \o AllSatisfying(queryTags, Tail(s))
    ELSE AllSatisfying(queryTags, Tail(s))

\* C11: run(S) of a built Many query returns, in order, exactly the elements
\* of S that satisfy one of the query's Tag Comparisons (so at most Len(S)).
C11_ManyRunIsMaximalSubsequence ==
  (ret.op = "run" /\ query.queryType = "many") =>
    /\ ret.outcome = Returned
    /\ ret.value = Arr(AllSatisfying(query.queryTags, ret.components))
    /\ Len(ret.value.items) <= Len(ret.components)

\* C12: withTag on a builder from One() or Many() returns that builder and
\* leaves its comparison sequence one element longer, the others kept.
C12_WithTagAppendsOne ==
  [][(ret'.op = "withTag" /\ builder.queryType \in {"single", "many"})
     => /\ ret'.outcome = Returned
        /\ ret'.value = This
        /\ builder'.queryTags.defined
        /\ Len(builder'.queryTags.items) = Len(builder.queryTags.items) + 1
        /\ SubSeq(builder'.queryTags.items, 1, Len(builder.queryTags.items))
             = builder.queryTags.items]_vars

\* C13: a built Query holds the comparison sequence its builder had when
\* build() was called, whatever is done to the builder afterwards.
C13_QueryHoldsBuiltComparisons ==
  query.queryType \in {"single", "many"} =>
    query._queryTags = DefinedArray(query.queryTags)

\* C14: build() on a builder whose arity was never selected fails with
\* InvalidState and returns no value.
C14_BuildWithoutArityFails ==
  (ret.op = "build" /\ builder.queryType = "undefined") =>
    ret.outcome = "InvalidState"

\* C15: addComponent(e, c) on a live entity appends c to the end of e's
\* sequence and returns the new length; on an absent entity it fails with
\* the entity-not-found error.
C15_AddComponentAppends ==
  [][ret'.op = "addComponent" =>
       IF MapHas(_componentTable, ret'.entity)
         THEN /\ ret'.outcome = Returned
              /\ MapHas(_componentTable', ret'.entity)
              /\ MapGet(_componentTable', ret'.entity) =
                   Append(MapGet(_componentTable, ret'.entity), ret'.component)
              /\ ret'.value = Num(Len(MapGet(_componentTable, ret'.entity)) + 1)
         ELSE ret'.outcome = EntityDoesNotExist]_vars

C15_Witness ==
  /\ ret.op = "addComponent"
  /\ ret.outcome = Returned
  /\ ret.value = Num(2)
  /\ MapGet(_componentTable, ret.entity) = <<1, 2>>

\* C16: no component is in the sequences of two different entities.
C16_ComponentsNotShared ==
  \A e1 \in Entities, e2 \in Entities :
    (e1 # e2 /\ MapHas(_componentTable, e1) /\ MapHas(_componentTable, e2)) =>
      Range(MapGet(_componentTable, e1)) \cap Range(MapGet(_componentTable, e2)) = {}

\* C17: a call of addComponent, removeComponent, removeAllComponents or
\* queryEntity that fails leaves the entity table and the system list as
\* they were.
C17_FailureChangesNothing ==
  [][(/\ ret'.op \in {"addComponent", "removeComponent",
                      "removeAllComponents", "queryEntity"}
      /\ ret'.outcome # Returned)
     => /\ _componentTable' = _componentTable
        /\ _systems' = _systems]_vars

C17_Witness ==
  /\ ret.op \in {"addComponent", "removeComponent", "removeAllComponents"}
  /\ ret.outcome = EntityDoesNotExist
  /\ Attached(_componentTable) > 0

\* C20: addComponent, removeComponent, removeAllComponents, removeEntity and
\* queryEntity on e leave every other entity in or out of the table as it
\* was, with the same sequence; queryEntity and queryAll change no sequence.
C20_OtherEntitiesUntouched ==
  [][/\ ret'.op \in {"addComponent", "removeComponent", "removeAllComponents",
                     "removeEntity", "queryEntity"}
        => \A other \in Entities \ {ret'.entity} :
             /\ MapHas(_componentTable', other) <=> MapHas(_componentTable, other)
             /\ MapHas(_componentTable, other) =>
                  MapGet(_componentTable', other) = MapGet(_componentTable, other)
     /\ ret'.op \in {"queryEntity", "queryAll"}
        => _componentTable' = _componentTable]_vars

C20_Witness ==
  /\ ret.op \in {"removeComponent", "removeEntity"}
  /\ ret.outcome = Returned
  /\ \E other \in Entities \ {ret.entity} :
       /\ MapHas(_componentTable, other)
       /\ ret.op = "removeComponent" => ret.component \in Range(MapGet(_componentTable, other))
       /\ ret.op = "removeEntity" => MapGet(_componentTable, other) = <<1, 2>>

\* C18: a tick() call in which a system's tick throws ends with that error at
\* its caller, having ticked once each, in order, the systems registered up
\* to and including the failing one, and none registered after it.
C18_TickFailsFast ==
  (ret.op = "tick" /\ ret.outcome = SystemError) =>
    /\ Len(ret.ticked) >= 1
    /\ Len(ret.ticked) <= Len(_systems)
    /\ ret.ticked = SubSeq(_systems, 1, Len(ret.ticked))
    /\ ret.ticked[Len(ret.ticked)] = ret.system

C18_Witness ==
  /\ ret.op = "tick"
  /\ ret.outcome = SystemError
  /\ Len(ret.ticked) = 2
  /\ Len(_systems) = 3
  /\ ret.initial = _systems

\* C19: the tick of a system is not running while the addSystem call that
\* registers it for the first time is still inside its onInitialize.
C19_NoTickBeforeInitialized ==
  \A i \in 1..Len(stack), j \in 1..Len(stack) :
    ~ /\ i < j
      /\ stack[i].call = "addSystem"
      /\ stack[i].system \notin Range(stack[i].initial)
      /\ stack[j].call = "tick"
      /\ stack[j].system = stack[i].system

====
